---- MODULE Spec2Model ----
(***************************************************************************)
(* A model of the go-pulp client library (package pulp) and of the task    *)
(* polling example that drives it.                                         *)
(*                                                                         *)
(* Strings are sequences of tokens: a token is a run of characters that    *)
(* holds none of the separators the code splits or tests on, and every     *)
(* separator ("/" at the end of a URL, "," ";" "<" ">" " " in a Link       *)
(* header, "&" in a query) is a token of its own.  Len of such a sequence  *)
(* stands for the byte length of the string.                               *)
(***************************************************************************)
EXTENDS Integers, Sequences, FiniteSets, TLC

VARIABLES
    baseURL,     \* Client.baseURL (*url.URL, possibly nil)
    UserAgent,   \* Client.UserAgent
    supplied,    \* the credentials the caller handed to NewClient
    Fields,      \* UnitsService.Fields, shared by every caller of the service
    store,       \* a SetFields whose write of Fields is under way
    own,         \* per caller: the field list it last passed to SetFields
    last,        \* the last library call: who made it, its arguments, its result
    setResult,   \* outcome of the last SetBaseURL/SetHost and the URL before it
    crashed,     \* a nil dereference ended the process
    do,          \* one execution of Client.Do, step by step
    poll         \* the polling loop of examples/main.go and the server's task

vars ==
    <<baseURL, UserAgent, supplied, Fields, store, own, last, setResult, crashed, do, poll>>

clientVars == <<baseURL, UserAgent, supplied, Fields, store, own, last, setResult, crashed>>

(***************************************************************************)
(* Bounds of the model.                                                    *)
(***************************************************************************)
MaxPage == 1
MaxLinks == 3
MaxPolls == 3

(***************************************************************************)
(* Constants of package pulp.                                              *)
(***************************************************************************)
apiVersion == "v2"
userAgent == "go-pulp/0.1"
defaultUser == "admin"
defaultPassword == "admin"

(***************************************************************************)
(* Strings.                                                                *)
(***************************************************************************)
HasPrefix(s, t) == Len(s) > 0 /\ s[1] = t

HasSuffix(s, t) == Len(s) > 0 /\ s[Len(s)] = t

RECURSIVE TrimLeft(_)
TrimLeft(s) == IF Len(s) > 0 /\ s[1] = " " THEN TrimLeft(Tail(s)) ELSE s

RECURSIVE TrimRight(_)
TrimRight(s) ==
    IF Len(s) > 0 /\ s[Len(s)] = " " THEN TrimRight(SubSeq(s, 1, Len(s) - 1)) ELSE s

TrimSpace(s) == TrimRight(TrimLeft(s))

\* strings.Split(s, sep): one more piece than there are separators, empty
\* pieces included.
RECURSIVE SplitFrom(_, _, _)
SplitFrom(s, sep, cur) ==
    IF s = <<>> THEN <<cur>>
    ELSE IF s[1] = sep THEN <<cur>> \o SplitFrom(Tail(s), sep, <<>>)
    ELSE SplitFrom(Tail(s), sep, Append(cur, s[1]))

Split(s, sep) == SplitFrom(s, sep, <<>>)

(***************************************************************************)
(* URLs.  A URL string is <<scheme, "://", host, path tokens...>>.          *)
(***************************************************************************)
NilURL == [nil |-> TRUE, Scheme |-> "", Host |-> "", Path |-> <<>>,
           Opaque |-> <<>>, RawQuery |-> <<>>]

\* Hosts that net/url rejects (an invalid percent escape, a blank).
InvalidHosts == {"%zz", "bad host"}

ValidHosts == {"pulp-lab-11.test"}

\* url.Parse: (nil, err) for a host it rejects, else the parsed URL.
UrlParse(s) ==
    IF Len(s) < 3 \/ s[3] \in InvalidHosts
    THEN [err |-> TRUE, url |-> NilURL]
    ELSE [err |-> FALSE,
          url |-> [nil |-> FALSE, Scheme |-> s[1], Host |-> s[3],
                   Path |-> SubSeq(s, 4, Len(s)), Opaque |-> <<>>,
                   RawQuery |-> <<>>]]

\* Client.SetBaseURL: the result of url.Parse is stored before the error is
\* looked at, so a failed parse stores nil.
SetBaseURL(urlStr) ==
    LET s == IF HasSuffix(urlStr, "/") THEN urlStr ELSE Append(urlStr, "/")
        p == UrlParse(s)
    IN  [baseURL |-> p.url, err |-> p.err]

\* Client.SetHost: c.ssl is never set, so the scheme is "http".
SetHost(hostStr) ==
    SetBaseURL(<<"http", "://", hostStr, "/pulp/api/", apiVersion, "/">>)

(***************************************************************************)
(* Request options and their two encodings.                                *)
(***************************************************************************)
NilOpt == [kind |-> "nil", Page |-> 0, PerPage |-> 0, Fields |-> <<>>]

\* A value that is no struct: query.Values refuses it.
NonStructOpt == [kind |-> "nonstruct", Page |-> 0, PerPage |-> 0, Fields |-> <<>>]

ListOptions(page, perPage) ==
    [kind |-> "list", Page |-> page, PerPage |-> perPage, Fields |-> <<>>]

\* ListUnitsOptions{UnitAssociationCriteria: criteria} after
\* criteria.AddFields(fields).
ListUnitsOptions(fields) ==
    [kind |-> "units", Page |-> 0, PerPage |-> 0, Fields |-> fields]

RECURSIVE JoinTokens(_, _)
JoinTokens(ss, sep) ==
    IF ss = <<>> THEN <<>>
    ELSE IF Len(ss) = 1 THEN ss[1]
    ELSE ss[1] \o <<sep>> \o JoinTokens(Tail(ss), sep)

RECURSIVE Quoted(_)
Quoted(fs) == IF fs = <<>> THEN <<>> ELSE <<<<"\"", fs[1], "\"">>>> \o Quoted(Tail(fs))

RECURSIVE Params(_, _)
Params(key, fs) == IF fs = <<>> THEN <<>> ELSE <<<<key, fs[1]>>>> \o Params(key, Tail(fs))

\* The unit association criteria carrying a field list, as query parameters
\* and as JSON.
CriteriaQuery(fields) == JoinTokens(Params("fields=", fields), "&")

CriteriaJSON(fields) ==
    <<"{", "\"fields\":", "{", "\"unit\":", "[">>
    \o JoinTokens(Quoted(fields), ",") \o <<"]", "}", "}">>

\* ListOptions: both fields are omitempty in both encodings.
ListPairs(opt, pageKey, perPageKey) ==
    (IF opt.Page # 0 THEN <<<<pageKey, ToString(opt.Page)>>>> ELSE <<>>)
    \o (IF opt.PerPage # 0 THEN <<<<perPageKey, ToString(opt.PerPage)>>>> ELSE <<>>)

\* query.Values(opt).Encode(): keys in sorted order; nil gives no parameter;
\* a value that is no struct is an error.
QueryValues(opt) ==
    CASE opt.kind = "nonstruct" -> [err |-> TRUE, query |-> <<>>]
      [] opt.kind = "list" ->
            [err |-> FALSE, query |-> JoinTokens(ListPairs(opt, "page=", "per_page="), "&")]
      [] opt.kind = "units" -> [err |-> FALSE, query |-> CriteriaQuery(opt.Fields)]
      [] OTHER -> [err |-> FALSE, query |-> <<>>]

\* json.Marshal(opt); a nil interface marshals to null.
JsonMarshal(opt) ==
    CASE opt.kind = "list" ->
            <<"{">> \o JoinTokens(ListPairs(opt, "\"page\":", "\"per_page\":"), ",")
            \o <<"}">>
      [] opt.kind = "units" -> <<"{", "\"criteria\":">> \o CriteriaJSON(opt.Fields) \o <<"}">>
      [] OTHER -> <<"null">>

(***************************************************************************)
(* Client.NewRequest.                                                      *)
(***************************************************************************)
NoBody == [nil |-> TRUE, bytes |-> <<>>]

NoAuth == [user |-> "", password |-> ""]

NoRequest ==
    [nil |-> TRUE, Method |-> "", URL |-> NilURL, Host |-> "", Body |-> NoBody,
     ContentLength |-> 0, Accept |-> "", ContentType |-> "", UserAgent |-> "",
     Auth |-> NoAuth]

IsWrite(method) == method = "POST" \/ method = "PUT"

\* The request around the URL u, whose query the caller has settled: req.URL
\* points at u, so the request sees every later change of u.
RequestWith(u, agent, method, opt) ==
    LET body == JsonMarshal(opt)
    IN  [nil |-> FALSE, Method |-> method, URL |-> u, Host |-> u.Host,
         Body |-> IF IsWrite(method) THEN [nil |-> FALSE, bytes |-> body] ELSE NoBody,
         ContentLength |-> IF IsWrite(method) THEN Len(body) ELSE 0,
         Accept |-> "application/json",
         ContentType |-> IF IsWrite(method) THEN "application/json" ELSE "",
         UserAgent |-> agent,
         Auth |-> [user |-> defaultUser, password |-> defaultPassword]]

\* NewRequest without the u.RawQuery = "" of the write branch.
NewRequestKeepQuery(base, agent, method, path, opt) ==
    LET q == QueryValues(opt)
        u == [base EXCEPT !.Opaque = base.Path \o path, !.RawQuery = q.query]
    IN  IF base.nil THEN [panic |-> TRUE, err |-> FALSE, req |-> NoRequest]
        ELSE IF q.err THEN [panic |-> FALSE, err |-> TRUE, req |-> NoRequest]
        ELSE [panic |-> FALSE, err |-> FALSE, req |-> RequestWith(u, agent, method, opt)]

\* Client.NewRequest: a nil baseURL is dereferenced (panic); an error of
\* query.Values returns (nil, err); a write method clears the query.
NewRequest(base, agent, method, path, opt) ==
    LET q == QueryValues(opt)
        u == [base EXCEPT !.Opaque = base.Path \o path,
                          !.RawQuery = IF IsWrite(method) THEN <<>> ELSE q.query]
    IN  IF base.nil THEN [panic |-> TRUE, err |-> FALSE, req |-> NoRequest]
        ELSE IF q.err THEN [panic |-> FALSE, err |-> TRUE, req |-> NoRequest]
        ELSE [panic |-> FALSE, err |-> FALSE, req |-> RequestWith(u, agent, method, opt)]

(***************************************************************************)
(* Tasks and the polling loop of examples/main.go.                         *)
(***************************************************************************)
TaskStates == {"init", "running", "finished", "error"}

\* How the server fills one importer of progress_report: the key is absent,
\* holds an object without content, or holds one with content.
Importers == {"absent", "nocontent", "content"}

TaskJSON(state, yum, docker) ==
    [state |-> state, yum_importer |-> yum, docker_importer |-> docker]

\* Decoding with the two importer keys exchanged.
DecodeTaskSwapped(json) ==
    [nil |-> FALSE, State |-> json.state, YumImporter |-> json.docker_importer,
     DockerImporter |-> json.yum_importer]

\* The Task that Do decodes the body into, by the json tags of Task.
DecodeTask(json) ==
    [nil |-> FALSE, State |-> json.state, YumImporter |-> json.yum_importer,
     DockerImporter |-> json.docker_importer]

NilTask == [nil |-> TRUE, State |-> "", YumImporter |-> "absent", DockerImporter |-> "absent"]

\* Task.Importer(): the kind of the first importer that is populated.
Importer(task) ==
    IF task.YumImporter # "absent" THEN "yum"
    ELSE IF task.DockerImporter # "absent" THEN "docker"
    ELSE ""

\* One pass through the body of the loop with the task that GetTask
\* returned: task.State is read of a nil task when the fetch failed, and
\* importer.Content of a nil importer or a nil Content; each is a panic.
\* Otherwise state takes the task's state.
LoopBody(state, task) ==
    LET kind == IF task.nil THEN "" ELSE Importer(task)
        importer == CASE kind = "yum" -> task.YumImporter
                      [] kind = "docker" -> task.DockerImporter
                      [] OTHER -> "absent"
    IN  IF task.nil THEN [pc |-> "panic", state |-> state, importer |-> kind]
        ELSE IF importer # "content" THEN [pc |-> "panic", state |-> state, importer |-> kind]
        ELSE [pc |-> "loop", state |-> task.State, importer |-> kind]

PollIdle ==
    [pc |-> "idle", state |-> "", server |-> TaskJSON("init", "absent", "absent"),
     fetches |-> 0, fetchFailed |-> FALSE, task |-> NilTask, importer |-> "",
     json |-> TaskJSON("init", "absent", "absent")]

(***************************************************************************)
(* The client and its callers.                                             *)
(***************************************************************************)
Callers == {"A", "B"}

Methods == {"GET", "POST", "PUT", "DELETE"}

Credentials ==
    {NoAuth, [user |-> "alice", password |-> "secret"],
     [user |-> defaultUser, password |-> defaultPassword]}

\* Arguments of SetBaseURL: with and without the final "/", and one that
\* url.Parse rejects.
BaseURLStrings ==
    {<<"https", "://", "mirror.test", "/api">>,
     <<"http", "://", "mirror.test", "/api", "/">>,
     <<"http", "://", "%zz", "/api", "/">>}

HostStrings == {"pulp-lab-12.test", "bad host"}

Options ==
    {NilOpt, NonStructOpt}
    \cup {ListOptions(p, n) : p \in 0..MaxPage, n \in 0..MaxPage}
    \cup {ListUnitsOptions(<<"name">>)}

FieldLists == {<<"name">>, <<"version", "filename">>}

TaskIds == {"t1"}

Repositories == {"repo-1"}

\* What a caller has passed to SetFields: nothing yet, or a field list.
Unset == [set |-> FALSE, fields |-> <<>>]

\* last.mine is the caller's own field list as the call was made.
NoCall ==
    [caller |-> "", mine |-> Unset, op |-> "", method |-> "", path |-> <<>>,
     opt |-> NilOpt, err |-> FALSE, req |-> NoRequest]

NoSet == [called |-> FALSE, err |-> FALSE, before |-> NilURL]

DoIdle == [pc |-> "idle"]

NoStore == [active |-> FALSE, caller |-> "", fields |-> <<>>]

\* A slice read while another goroutine stores it: the pointer of one value
\* with the length of the other, that is the one's elements cut or filled up
\* (with whatever lies behind them) to the other's length.
Resized(fs, n) == [i \in 1..n |-> IF i <= Len(fs) THEN fs[i] ELSE "?"]

\* What a read of s.Fields can give: the value in memory and, during a store
\* by another goroutine (a data race), also the value being stored or a mix
\* of the two.
ReadFields ==
    IF store.active
    THEN {Fields, store.fields, Resized(Fields, Len(store.fields)),
          Resized(store.fields, Len(Fields))}
    ELSE {Fields}

\* NewClient(host, user, password, ...) as examples/main.go calls it: the
\* Client has no field for the credentials, so they are dropped; a host that
\* does not parse panics, so no client exists for it.
NewClient(host, user, password) ==
    [baseURL |-> SetHost(host).baseURL, UserAgent |-> userAgent]

\* The client as NewClient(host, cred...) leaves it, before any call.
Constructed(host, cred) ==
    /\ baseURL = NewClient(host, cred.user, cred.password).baseURL
    /\ UserAgent = NewClient(host, cred.user, cred.password).UserAgent
    /\ supplied = cred
    /\ Fields = <<>>
    /\ store = NoStore
    /\ own = [c \in Callers |-> Unset]
    /\ last = NoCall
    /\ setResult = NoSet
    /\ crashed = FALSE

ClientInit ==
    /\ \E host \in ValidHosts, cred \in Credentials : Constructed(host, cred)
    /\ do = DoIdle
    /\ poll = PollIdle

\* The result of one library call that builds a request (and sends it).
Record(c, op, method, path, opt, r) ==
    IF r.panic
    THEN crashed' = TRUE /\ UNCHANGED last
    ELSE /\ last' = [caller |-> c, mine |-> own[c], op |-> op, method |-> method,
                     path |-> path, opt |-> opt, err |-> r.err, req |-> r.req]
         /\ UNCHANGED crashed

CallSetBaseURL(urlStr) ==
    /\ ~crashed
    /\ baseURL' = SetBaseURL(urlStr).baseURL
    /\ setResult' = [called |-> TRUE, err |-> SetBaseURL(urlStr).err,
                     before |-> baseURL]
    /\ UNCHANGED <<UserAgent, supplied, Fields, store, own, last, crashed, do, poll>>

CallSetHost(hostStr) ==
    /\ ~crashed
    /\ baseURL' = SetHost(hostStr).baseURL
    /\ setResult' = [called |-> TRUE, err |-> SetHost(hostStr).err,
                     before |-> baseURL]
    /\ UNCHANGED <<UserAgent, supplied, Fields, store, own, last, crashed, do, poll>>

CallNewRequest(c, method, path, opt) ==
    /\ ~crashed
    /\ Record(c, "NewRequest", method, path, opt,
              NewRequest(baseURL, UserAgent, method, path, opt))
    /\ UNCHANGED <<baseURL, UserAgent, supplied, Fields, store, own, setResult, do, poll>>

\* UnitsService.SetFields, entered: s.Fields = fields is a store of the three
\* words of a slice, which no lock guards.
CallSetFields(c, fields) ==
    /\ ~crashed
    /\ ~store.active
    /\ store' = [active |-> TRUE, caller |-> c, fields |-> fields]
    /\ own' = [own EXCEPT ![c] = [set |-> TRUE, fields |-> fields]]
    /\ UNCHANGED <<baseURL, UserAgent, supplied, Fields, last, setResult, crashed, do, poll>>

\* UnitsService.SetFields, done: the store is complete.
SetFieldsDone ==
    /\ ~crashed
    /\ store.active
    /\ Fields' = store.fields
    /\ store' = NoStore
    /\ UNCHANGED <<baseURL, UserAgent, supplied, own, last, setResult, crashed, do, poll>>

\* UnitsService.ListUnits: the criteria take the service's Fields as the call
\* reads them.
CallListUnits(c, repository) ==
    LET path == <<"repositories/", repository, "/search/units/">>
    IN  /\ ~crashed
        /\ ~(store.active /\ store.caller = c)
        /\ \E seen \in ReadFields :
              Record(c, "ListUnits", "POST", path, ListUnitsOptions(seen),
                     NewRequest(baseURL, UserAgent, "POST", path, ListUnitsOptions(seen)))
        /\ UNCHANGED <<baseURL, UserAgent, supplied, Fields, store, own, setResult, do, poll>>

\* TasksService.GetTask.
CallGetTask(c, task) ==
    LET path == <<"tasks/", task, "/">>
    IN  /\ ~crashed
        /\ Record(c, "GetTask", "GET", path, NilOpt,
                  NewRequest(baseURL, UserAgent, "GET", path, NilOpt))
        /\ UNCHANGED <<baseURL, UserAgent, supplied, Fields, store, own, setResult, do, poll>>

\* TasksService.ListTasks.
CallListTasks(c) ==
    /\ ~crashed
    /\ Record(c, "ListTasks", "GET", <<"tasks/">>, NilOpt,
              NewRequest(baseURL, UserAgent, "GET", <<"tasks/">>, NilOpt))
    /\ UNCHANGED <<baseURL, UserAgent, supplied, Fields, store, own, setResult, do, poll>>

\* One caller that builds requests and overrides the base URL.
ClientNext ==
    \/ \E urlStr \in BaseURLStrings : CallSetBaseURL(urlStr)
    \/ \E hostStr \in HostStrings : CallSetHost(hostStr)
    \/ \E method \in Methods, opt \in Options :
          CallNewRequest("A", method, <<"repositories/">>, opt)

SpecClient == ClientInit /\ [][ClientNext]_vars

\* Two callers of one client and one units service, in any interleaving.
UnitsNext ==
    \E c \in Callers :
        \/ \E method \in Methods, opt \in Options :
              CallNewRequest(c, method, <<"repositories/">>, opt)
        \/ \E fields \in FieldLists : CallSetFields(c, fields)
        \/ SetFieldsDone
        \/ \E repository \in Repositories : CallListUnits(c, repository)
        \/ \E task \in TaskIds : CallGetTask(c, task)
        \/ CallListTasks(c)

SpecUnits == ClientInit /\ [][UnitsNext]_vars

(***************************************************************************)
(* Pagination: Response.populatePageValues.                                *)
(***************************************************************************)
NoPages == [nil |-> FALSE, NextPage |-> 0, PrevPage |-> 0, FirstPage |-> 0, LastPage |-> 0]

NilResponse == [nil |-> TRUE, NextPage |-> 0, PrevPage |-> 0, FirstPage |-> 0, LastPage |-> 0]

\* The hrefs of the Link headers: url.Parse rejects the first; the others
\* parse, and url.Query().Get("page") gives the value shown.
LinkUrlParse(inner) ==
    IF \E i \in 1..Len(inner) : inner[i] = "http://%zz/?page=2"
    THEN [err |-> TRUE, page |-> ""]
    ELSE [err |-> FALSE,
          page |-> IF Len(inner) # 1 THEN ""
                   ELSE CASE inner[1] = "http://x/?page=1" -> "1"
                          [] inner[1] = "http://x/?page=2" -> "2"
                          [] inner[1] = "http://x/?page=abc" -> "abc"
                          [] OTHER -> ""]

\* strconv.Atoi with its error dropped: 0 for what is no number.
Atoi(s) == CASE s = "1" -> 1 [] s = "2" -> 2 [] OTHER -> 0

\* The switch over the trimmed segment, with the cases of next and prev
\* exchanged.
RelFieldSwapped(segment) ==
    LET t == TrimSpace(segment)
    IN  CASE t = <<"rel=\"next\"">> -> "PrevPage"
          [] t = <<"rel=\"prev\"">> -> "NextPage"
          [] t = <<"rel=\"first\"">> -> "FirstPage"
          [] t = <<"rel=\"last\"">> -> "LastPage"
          [] OTHER -> ""

\* The switch over the trimmed segment: the field it assigns, "" for none.
RelField(segment) ==
    LET t == TrimSpace(segment)
    IN  CASE t = <<"rel=\"next\"">> -> "NextPage"
          [] t = <<"rel=\"prev\"">> -> "PrevPage"
          [] t = <<"rel=\"first\"">> -> "FirstPage"
          [] t = <<"rel=\"last\"">> -> "LastPage"
          [] OTHER -> ""

\* for _, segment := range segments[1:]
RECURSIVE ApplyRels(_, _, _)
ApplyRels(r, segments, page) ==
    IF segments = <<>> THEN r
    ELSE ApplyRels(IF RelField(segments[1]) = "" THEN r
                   ELSE [r EXCEPT ![RelField(segments[1])] = Atoi(page)],
                   Tail(segments), page)

\* One iteration of the loop over the links of the header.
ApplyLink(r, link) ==
    LET segments == Split(TrimSpace(link), ";")
        href == segments[1]
        u == LinkUrlParse(SubSeq(href, 2, Len(href) - 1))
    IN  IF Len(segments) < 2 THEN r
        ELSE IF ~HasPrefix(href, "<") \/ ~HasSuffix(href, ">") THEN r
        ELSE IF u.err THEN r
        ELSE IF u.page = "" THEN r
        ELSE ApplyRels(r, Tail(segments), u.page)

RECURSIVE ApplyLinks(_, _)
ApplyLinks(r, links) ==
    IF links = <<>> THEN r ELSE ApplyLinks(ApplyLink(r, links[1]), Tail(links))

\* Only the first value of the Link header is read.
populatePageValues(r, header) ==
    IF header.present THEN ApplyLinks(r, Split(header.value, ",")) ELSE r

newResponse(resp) == populatePageValues(NoPages, resp.Link)

(***************************************************************************)
(* Link headers a server sends: a header is a list of links, each written  *)
(* in one of these forms.                                                  *)
(***************************************************************************)
LinkSegments ==
    {[form |-> "ok", page |-> "2", rels |-> <<"next">>],
     [form |-> "spaced", page |-> "1", rels |-> <<"prev">>],
     [form |-> "ok", page |-> "1", rels |-> <<"first", "last">>],
     [form |-> "ok", page |-> "2", rels |-> <<"up">>],
     [form |-> "href_only", page |-> "2", rels |-> <<>>],
     [form |-> "no_brackets", page |-> "2", rels |-> <<"next">>],
     [form |-> "bad_url", page |-> "2", rels |-> <<"next">>],
     [form |-> "no_page", page |-> "", rels |-> <<"prev">>],
     [form |-> "nan_page", page |-> "abc", rels |-> <<"next">>]}

LinkLists == UNION {[1..n -> LinkSegments] : n \in 0..MaxLinks}

UrlToken(d) ==
    CASE d.form = "bad_url" -> "http://%zz/?page=2"
      [] d.page = "1" -> "http://x/?page=1"
      [] d.page = "2" -> "http://x/?page=2"
      [] d.page = "abc" -> "http://x/?page=abc"
      [] OTHER -> "http://x/"

RelToken(rel) ==
    CASE rel = "next" -> "rel=\"next\""
      [] rel = "prev" -> "rel=\"prev\""
      [] rel = "first" -> "rel=\"first\""
      [] rel = "last" -> "rel=\"last\""
      [] OTHER -> "rel=\"up\""

RECURSIVE RelTokens(_)
RelTokens(rels) ==
    IF rels = <<>> THEN <<>> ELSE <<";", " ", RelToken(rels[1])>> \o RelTokens(Tail(rels))

\* The text of one link.
LinkText(d) ==
    CASE d.form = "no_brackets" -> <<UrlToken(d)>> \o RelTokens(d.rels)
      [] d.form = "spaced" -> <<" ", "<", UrlToken(d), ">">> \o RelTokens(d.rels)
      [] OTHER -> <<"<", UrlToken(d), ">">> \o RelTokens(d.rels)

RECURSIVE LinkTexts(_)
LinkTexts(ds) == IF ds = <<>> THEN <<>> ELSE <<LinkText(ds[1])>> \o LinkTexts(Tail(ds))

LinkHeader(ds) == [present |-> TRUE, value |-> JoinTokens(LinkTexts(ds), ",")]

NoLinkHeader == [present |-> FALSE, value |-> <<>>]

(***************************************************************************)
(* Responses, CheckResponse and Client.Do.                                 *)
(***************************************************************************)
StatusCodes == {199, 200, 299, 300, 404}

\* What v of Do(req, v) is: nil, an io.Writer, or a value to decode into.
Targets == {"nil", "writer", "struct"}

MessageText == "not found"

FieldErrors == <<[Resource |-> "repo", Field |-> "id", Code |-> "missing"]>>

\* Response bodies.  readErr: reading the body fails.  json: the text is
\* empty, is no JSON, or is a JSON object; of an object, how the keys
\* "message", "errors" and "Response" appear.
Body(readErr, json, message, errors, response) ==
    [readErr |-> readErr, json |-> json, message |-> message, errors |-> errors,
     Response |-> response]

Bodies ==
    {Body(FALSE, "object", "string", "list", "absent"),    \* {"message":"not found","errors":[{...}]}
     Body(FALSE, "object", "absent", "absent", "absent"),  \* {"task_id":"t1"}
     Body(FALSE, "object", "string", "badtype", "absent"), \* {"message":"not found","errors":7}
     Body(FALSE, "object", "string", "absent", "null"),    \* {"message":"not found","Response":null}
     Body(FALSE, "invalid", "absent", "absent", "absent"), \* <html>
     Body(FALSE, "empty", "absent", "absent", "absent"),
     Body(TRUE, "object", "string", "list", "absent")}

NoHTTPResponse ==
    [nil |-> TRUE, StatusCode |-> 0, Link |-> NoLinkHeader,
     Body |-> Body(FALSE, "empty", "absent", "absent", "absent"),
     open |-> FALSE, closes |-> 0]

NoError ==
    [kind |-> "nil", Response |-> [nil |-> TRUE, StatusCode |-> 0], Message |-> "",
     Errors |-> <<>>]

\* json.Unmarshal(data, errorResponse), its error dropped.  Text that is no
\* JSON leaves the target as it was.  Of a JSON object every key that matches
\* a field is stored as far as its type allows: Message and Errors carry json
\* tags, and Response, which carries none, is matched by its name, so a null
\* there stores a nil pointer.
Unmarshal(body, e) ==
    IF body.json # "object" THEN e
    ELSE [e EXCEPT !.Message = IF body.message = "string" THEN MessageText ELSE @,
                   !.Errors = IF body.errors = "list" THEN FieldErrors ELSE @,
                   !.Response = IF body.Response = "null"
                                THEN [nil |-> TRUE, StatusCode |-> 0] ELSE @]

\* CheckResponse: nil for 200..299, else an *ErrorResponse around r, filled
\* from the body when the body could be read.
CheckResponse(r) ==
    IF 200 <= r.StatusCode /\ r.StatusCode <= 299 THEN NoError
    ELSE LET errorResponse ==
                 [kind |-> "api",
                  Response |-> [nil |-> FALSE, StatusCode |-> r.StatusCode],
                  Message |-> "", Errors |-> <<>>]
         IN  IF ~r.Body.readErr THEN Unmarshal(r.Body, errorResponse)
             ELSE errorResponse

\* io.Copy(w, resp.Body) and json.NewDecoder(resp.Body).Decode(v).
Decode(v, body) ==
    CASE v = "nil" -> "nil"
      [] v = "writer" -> IF body.readErr THEN "copy" ELSE "nil"
      [] OTHER -> IF body.readErr \/ body.json # "object" THEN "decode" ELSE "nil"

\* The body left open by a return.
LeaveOpen(resp) == resp

\* defer resp.Body.Close(): runs as Do returns.
Close(resp) == [resp EXCEPT !.open = FALSE, !.closes = @ + 1]

\* A return that drops the response, as the transport failure does.
ReturnNoResponse(response, err) == [response |-> NilResponse, err |-> err]

\* return response, err
Return(response, err) == [response |-> response, err |-> err]

NoReturn == [response |-> NilResponse, err |-> NoError]

DoStart(v) ==
    [pc |-> "start", v |-> v, links |-> <<>>, resp |-> NoHTTPResponse,
     response |-> NilResponse, checkErr |-> NoError, ret |-> NoReturn]

DoInit ==
    /\ Constructed("pulp-lab-11.test", NoAuth)
    /\ \E v \in Targets : do = DoStart(v)
    /\ poll = PollIdle

\* resp, err := c.client.Do(req) with err != nil: return nil, err.
DoTransportFails ==
    /\ do.pc = "start"
    /\ do' = [do EXCEPT !.pc = "returned",
                        !.ret = [response |-> NilResponse,
                                 err |-> [NoError EXCEPT !.kind = "transport"]]]
    /\ UNCHANGED <<clientVars, poll>>

\* resp, err := c.client.Do(req) with a response, whose body is now open.
DoTransport(status, header, links, body) ==
    /\ do.pc = "start"
    /\ do' = [do EXCEPT !.pc = "newResponse",
                        !.links = links,
                        !.resp = [nil |-> FALSE, StatusCode |-> status, Link |-> header,
                                  Body |-> body, open |-> TRUE, closes |-> 0]]
    /\ UNCHANGED <<clientVars, poll>>

\* response := newResponse(resp)
DoNewResponse ==
    /\ do.pc = "newResponse"
    /\ do' = [do EXCEPT !.pc = "check", !.response = newResponse(do.resp)]
    /\ UNCHANGED <<clientVars, poll>>

\* err = CheckResponse(resp); if err != nil { return response, err }
DoCheckResponse ==
    /\ do.pc = "check"
    /\ LET err == CheckResponse(do.resp)
       IN  IF err.kind # "nil"
           THEN do' = [do EXCEPT !.pc = "returned", !.checkErr = err,
                                 !.ret = Return(do.response, err),
                                 !.resp = Close(do.resp)]
           ELSE do' = [do EXCEPT !.pc = "decode", !.checkErr = err]
    /\ UNCHANGED <<clientVars, poll>>

\* if v != nil { copy or decode }; return response, err
DoDecode ==
    /\ do.pc = "decode"
    /\ do' = [do EXCEPT !.pc = "returned",
                        !.ret = Return(do.response,
                                       [NoError EXCEPT !.kind = Decode(do.v, do.resp.Body)]),
                        !.resp = Close(do.resp)]
    /\ UNCHANGED <<clientVars, poll>>

\* The Link headers of the responses Do is run on.
SentLinkLists ==
    {<<>>,
     <<[form |-> "ok", page |-> "2", rels |-> <<"next">>],
       [form |-> "spaced", page |-> "1", rels |-> <<"prev">>]>>,
     <<[form |-> "ok", page |-> "1", rels |-> <<"first", "last">>],
       [form |-> "no_page", page |-> "", rels |-> <<"prev">>]>>}

DoNext ==
    \/ DoTransportFails
    \/ \E status \in StatusCodes, links \in SentLinkLists, body \in Bodies :
          DoTransport(status, LinkHeader(links), links, body)
    \/ \E status \in StatusCodes, body \in Bodies :
          DoTransport(status, NoLinkHeader, <<>>, body)
    \/ DoNewResponse
    \/ DoCheckResponse
    \/ DoDecode

SpecDo == DoInit /\ [][DoNext]_vars

\* newResponse on every Link header of the bounded set: the state is the one
\* Do is in when the transport has handed it a response.
Received(header, links) ==
    [DoStart("struct") EXCEPT
        !.pc = "newResponse", !.links = links,
        !.resp = [nil |-> FALSE, StatusCode |-> 200, Link |-> header,
                  Body |-> Body(FALSE, "object", "absent", "absent", "absent"),
                  open |-> TRUE, closes |-> 0]]

PageInit ==
    /\ Constructed("pulp-lab-11.test", NoAuth)
    /\ \/ \E links \in LinkLists : do = Received(LinkHeader(links), links)
       \/ do = Received(NoLinkHeader, <<>>)
    /\ poll = PollIdle

SpecPage == PageInit /\ [][DoNewResponse]_vars

(***************************************************************************)
(* The polling loop against a task that the server moves on.               *)
(***************************************************************************)
PollInit ==
    /\ Constructed("pulp-lab-11.test", NoAuth)
    /\ do = DoIdle
    /\ \E yum \in Importers, docker \in Importers :
          poll = [PollIdle EXCEPT !.pc = "loop", !.state = "init",
                                  !.server = TaskJSON("init", yum, docker)]

\* The server moves the task from init or running on, never back, and fills
\* the progress report as it likes.
ServerStep(state, yum, docker) ==
    /\ poll.server.state \in {"init", "running"}
    /\ state # "init"
    /\ poll' = [poll EXCEPT !.server = TaskJSON(state, yum, docker)]
    /\ UNCHANGED <<clientVars, do>>

\* for (state != "finished") && (state != "error") { GetTask; ...; state = task.State }
PollIteration(fetchOk) ==
    /\ poll.pc = "loop"
    /\ poll.state # "finished" /\ poll.state # "error"
    /\ poll.fetches < MaxPolls
    /\ LET task == IF fetchOk THEN DecodeTask(poll.server) ELSE NilTask
           r == LoopBody(poll.state, task)
       IN  poll' = [poll EXCEPT !.pc = r.pc, !.state = r.state, !.importer = r.importer,
                                !.fetches = @ + 1, !.fetchFailed = @ \/ ~fetchOk,
                                !.task = task, !.json = poll.server]
    /\ UNCHANGED <<clientVars, do>>

\* The loop condition fails: main returns.
PollExit ==
    /\ poll.pc = "loop"
    /\ poll.state = "finished" \/ poll.state = "error"
    /\ poll' = [poll EXCEPT !.pc = "done"]
    /\ UNCHANGED <<clientVars, do>>

PollNext ==
    \/ \E state \in TaskStates, yum \in Importers, docker \in Importers :
          ServerStep(state, yum, docker)
    \/ \E fetchOk \in BOOLEAN : PollIteration(fetchOk)
    \/ PollExit

SpecPoll == PollInit /\ [][PollNext]_vars

(***************************************************************************)
(* Properties.                                                             *)
(***************************************************************************)
BuiltRequest == ~last.req.nil

\* C1: a request built for POST or PUT has an empty query string and the
\* JSON of the options as its body, Content-Length being the body's length;
\* a request built for any other method has no body and the options as its
\* query; no request carries a query and a body.
C1_WriteBodyReadQuery ==
    BuiltRequest =>
        /\ last.method \in {"POST", "PUT"} =>
              /\ last.req.URL.RawQuery = <<>>
              /\ ~last.req.Body.nil
              /\ last.req.Body.bytes = JsonMarshal(last.opt)
              /\ last.req.ContentLength = Len(last.req.Body.bytes)
        /\ last.method \notin {"POST", "PUT"} =>
              /\ last.req.Body.nil
              /\ last.req.URL.RawQuery = QueryValues(last.opt).query
        /\ ~(last.req.URL.RawQuery # <<>> /\ ~last.req.Body.nil)

\* A POST whose options would encode to a query that is not empty.
C1_Witness ==
    /\ BuiltRequest
    /\ last.method = "POST"
    /\ QueryValues(last.opt).query # <<>>
    /\ last.req.URL.RawQuery = <<>>
    /\ last.req.ContentLength > 1

\* C6: every built request accepts application/json and authenticates with
\* the credentials given at construction, the default ones only when none
\* were given.
C6_ConfiguredCredentials ==
    BuiltRequest =>
        /\ last.req.Accept = "application/json"
        /\ last.req.Auth = IF supplied = NoAuth
                           THEN [user |-> defaultUser, password |-> defaultPassword]
                           ELSE supplied

\* C7: the request a caller sends is determined by its own arguments and the
\* configuration of the client (a ListUnits sent by a caller that set its
\* fields carries those fields), and no call changes the base URL or the
\* user agent.
C7_CallerDeterminesRequest ==
    /\ baseURL = NewClient("pulp-lab-11.test", "", "").baseURL
    /\ UserAgent = userAgent
    /\ (BuiltRequest /\ last.op = "ListUnits" /\ last.mine.set) =>
          last.req.Body.bytes = JsonMarshal(ListUnitsOptions(last.mine.fields))
    /\ (BuiltRequest /\ last.op # "ListUnits") =>
          last.req = NewRequest(NewClient("pulp-lab-11.test", "", "").baseURL, userAgent,
                                last.method, last.path, last.opt).req

\* C10: a SetBaseURL or SetHost that returns an error leaves the base URL as
\* it was, and the requests built afterwards do not fail on it.
C10_FailedOverrideKeepsBaseURL ==
    /\ (setResult.called /\ setResult.err) => baseURL = setResult.before
    /\ ~crashed

Checked == do.pc \in {"decode", "returned"} /\ ~do.resp.nil

Unparsable(body) ==
    \/ body.readErr
    \/ body.json # "object"
    \/ body.message = "badtype"
    \/ body.errors = "badtype"

\* C2: CheckResponse gives no error for a status in 200..299 and for every
\* other status an ErrorResponse holding that response, whatever the body;
\* with a body that cannot be parsed, Message and Errors are empty.
C2_ClassifiedError ==
    Checked =>
        IF do.resp.StatusCode \in 200..299
        THEN do.checkErr.kind = "nil"
        ELSE /\ do.checkErr.kind = "api"
             /\ ~do.checkErr.Response.nil
             /\ do.checkErr.Response.StatusCode = do.resp.StatusCode
             /\ Unparsable(do.resp.Body) =>
                   do.checkErr.Message = "" /\ do.checkErr.Errors = <<>>

\* What the claims say of a list of links: a link is well formed when it is
\* <url>; rel="x" with a page number in the url, and each field holds the page
\* of the last well-formed link naming its relation, 0 when there is none.
WellFormed(d) == d.form \in {"ok", "spaced"} /\ d.page \in {"1", "2"}

Names(d, rel) == \E j \in 1..Len(d.rels) : d.rels[j] = rel

Naming(links, rel) == {i \in 1..Len(links) : WellFormed(links[i]) /\ Names(links[i], rel)}

Latest(S) == CHOOSE i \in S : \A j \in S : j <= i

ExpectedPage(links, rel) ==
    IF Naming(links, rel) = {} THEN 0
    ELSE IF links[Latest(Naming(links, rel))].page = "1" THEN 1 ELSE 2

ExpectedPages(links) ==
    [nil |-> FALSE, NextPage |-> ExpectedPage(links, "next"),
     PrevPage |-> ExpectedPage(links, "prev"), FirstPage |-> ExpectedPage(links, "first"),
     LastPage |-> ExpectedPage(links, "last")]

NumericPages(links) == \A i \in 1..Len(links) : links[i].page # "abc"

\* C3: when Do returns a classified API error or a decode or copy error, the
\* Response it returns is not nil and holds the page numbers of the
\* response's Link header.
C3_ResponseOnFailure ==
    (do.pc = "returned" /\ do.ret.err.kind \in {"api", "decode", "copy"}) =>
        /\ ~do.ret.response.nil
        /\ do.ret.response = ExpectedPages(do.links)

\* An API error returned with the page numbers of the header.
C3_Witness ==
    /\ do.pc = "returned"
    /\ do.ret.err.kind = "api"
    /\ do.ret.response.NextPage = 2
    /\ do.ret.response.PrevPage = 1

\* C4: the body the transport opened stays open while Do runs and is closed,
\* once, when Do returns, on every path; after a transport failure there is
\* no body and none is closed.
C4_BodyClosedOnReturn ==
    /\ do.pc \in {"newResponse", "check", "decode"} => do.resp.open /\ do.resp.closes = 0
    /\ do.pc = "returned" =>
          /\ ~do.resp.open
          /\ do.resp.closes = IF do.resp.nil THEN 0 ELSE 1

\* Do has returned a decode error, the body closed.
C4_Witness ==
    /\ do.pc = "returned"
    /\ do.ret.err.kind = "decode"
    /\ ~do.resp.nil
    /\ do.resp.closes = 1

ExampleHeader ==
    <<"<", "http://x/?page=2", ">", ";", " ", "rel=\"next\"", ",", " ",
      "<", "http://x/?page=1", ">", ";", " ", "rel=\"prev\"">>

\* C5: after the Link header is parsed, each of NextPage, PrevPage, FirstPage
\* and LastPage holds the page of the last well-formed link of its relation;
\* malformed links change nothing, an absent relation leaves 0, no header
\* fails the parse, and the header next=2, prev=1 gives 2, 1, 0, 0.
C5_Pagination ==
    do.pc = "check" =>
        /\ ~do.response.nil
        /\ NumericPages(do.links) => do.response = ExpectedPages(do.links)
        /\ (do.resp.Link.present /\ do.resp.Link.value = ExampleHeader) =>
              /\ do.response.NextPage = 2
              /\ do.response.PrevPage = 1
              /\ do.response.FirstPage = 0
              /\ do.response.LastPage = 0

\* A well-formed prev link followed by a link without a page parameter and
\* one without brackets: PrevPage keeps the page of the first.
C5_Witness ==
    /\ do.pc = "check"
    /\ Len(do.links) = 3
    /\ WellFormed(do.links[1]) /\ Names(do.links[1], "prev")
    /\ do.links[2].form = "no_page"
    /\ do.links[3].form = "no_brackets"
    /\ do.response.PrevPage = 1
    /\ do.response.NextPage = 0

Fetched == poll.fetches > 0 /\ ~poll.task.nil

C9_StopsOnTerminalOnly ==
    (poll.pc \in {"done", "panic"} /\ ~poll.fetchFailed) =>
        poll.state \in {"finished", "error"}

====
